---- MODULE Spec2Model ----
(***************************************************************************)
(* HDevirtualization (compiler/optimizing/extensions/passes/               *)
(* devirtualization.cc): the speculative devirtualization pass.            *)
(*                                                                         *)
(* The state is the pass object (the two prediction maps), the basic block *)
(* the candidate invokes live in, and the answers of the external          *)
(* collaborators (dex cache, class linker, reference type propagation,     *)
(* profile source), which are fixed for the duration of the pass.          *)
(***************************************************************************)
EXTENDS Integers, Sequences, FiniteSets, TLC

NULL == "nullptr"

\* ------------------------------------------------------------- bounds
\* Longest list the profile source answers with.
MaxProfile == 2

\* ------------------------------------------------- the compiled method
\* Candidate invokes of the graph (IsCandidate holds of both).
Calls == {"c1", "c2"}
\* Classes known to the runtime.
Types == {"A", "B"}
\* Classes with a type id in the caller's dex file: "B" comes from another dex file.
DexClasses == {"A"}
\* graph_->GetArtMethod()->GetDeclaringClass()
kReferrerClass == "A"
\* Methods the dex cache can resolve a method index to.
Methods == {"mFinal", "mVirt"}
\* Values that are the receiver (InputAt(0)) of an invoke: a parameter "v1",
\* "n1" = HNullCheck(v1), and another object "v2".
Values == {"v1", "n1", "v2"}

IsNullCheck(v) == v = "n1"
NullCheckInput(v) == "v1"
\* receiver->GetReferenceTypeInfo().GetTypeHandle(); reference type propagation
\* did not go through the null check.
ReferenceTypeOf(v) == CASE v = "v1" -> "B" [] v = "v2" -> "A" [] OTHER -> NULL
IsMethodOrDeclaringClassFinal(m) == m = "mFinal"
GetDeclaringClass(m) == "A"
IsInvokeInterface(c) == c = "c2"
GetNumberOfArguments(c) == IF c = "c1" THEN 1 ELSE 2

\* Costs declared by the pass (devirtualization.h); only their use is in this file.
kCostOfLoadClass == 3
kCostOfLoadReferrerClass == 1
kCostOfDevirtCheck == 2
kCostOfVirtualInvokes == 4
\* (size_t)0 - 1
kSizeMax == "SIZE_MAX"

RECURSIVE SeqsUpTo(_, _)
SeqsUpTo(S, n) ==
  IF n = 0 THEN {<<>>}
  ELSE LET shorter == SeqsUpTo(S, n - 1)
       IN shorter \cup {Append(s, x) : s \in {t \in shorter : Len(t) = n - 1}, x \in S}

ProfileLists == SeqsUpTo(Types, MaxProfile)

VARIABLES
  kIsDebugBuild,          \* build flavour
  resolved_method,        \* DexCache::GetResolvedMethod(method_index) per invoke
  actual_target,          \* FindVirtualOrInterfaceTarget(invoke, resolved_method)
  profile,                \* answer of the profile source per invoke
  receiver,               \* invoke->InputAt(0)
  precise_prediction_,    \* SafeMap<HInstruction*, TypeHandle>
  imprecise_predictions_, \* SafeMap<HInstruction*, std::vector<TypeHandle>>
  block,                  \* the instructions of the basic block, in program order
  pc,                     \* where the pass is inside InsertSpeculationGuard/HandleSpeculation
  frame,                  \* the locals of the call in progress
  soa,                    \* a ScopedObjectAccess is alive (the mutator lock is held)
  ret,                    \* the last call of the driver and what it returned
  fault                   \* "none", "dcheck" (failed DCHECK/CHECK) or "ub"

vars == <<kIsDebugBuild, resolved_method, actual_target, profile, receiver,
          precise_prediction_, imprecise_predictions_,
          block, pc, frame, soa, ret, fault>>

graph == <<block, pc, frame, soa>>

world == <<kIsDebugBuild, resolved_method, actual_target, profile, receiver>>

\* SafeMap::Put
Put(map, k, v) == [x \in DOMAIN map \cup {k} |-> IF x = k THEN v ELSE map[x]]
EmptyMap == [x \in {} |-> NULL]

Returned(op, instr, arg, val, consulted) ==
  [op |-> op, instr |-> instr, arg |-> arg, val |-> val, consulted |-> consulted]

\* Mutant: the profile source answers with the class being compiled.
FindTypesFromProfile_Guess(invoke) == <<kReferrerClass>>

\* std::vector<TypeHandle> FindTypesFromProfile(invoke, caller_method)
FindTypesFromProfile(invoke) == <<>>

\* The answers the collaborators can give for one invoke: <<resolved method,
\* actual target, profile>>. An answer the code does not ask for (the target of
\* an unresolved method, the profile of a call with a target) is one that a
\* wrong read would show: a target, a non-empty profile.
TargetAnswers ==
  {<<NULL, "mFinal">>, <<"mVirt", NULL>>}
    \cup {u \in Methods \X Methods : u[1] = "mFinal" => u[2] = u[1]}

\* The lists the profile source can answer with for invoke c: c1 is a call site
\* with at most one candidate, c2 one with up to MaxProfile candidates.
ProfileListsOf(c) == IF c = "c1" THEN SeqsUpTo(Types, 1) ELSE ProfileLists

ResolverAnswers(c) ==
  {<<t[1], t[2], <<"B">>>> : t \in TargetAnswers \ {<<"mVirt", NULL>>}}
    \cup {<<"mVirt", NULL, l>> : l \in ProfileListsOf(c)}

\* The build, the dex cache and the graph the pass is given: c1 is called on
\* the null-checked v1, c2 on the same value or on v2.
InitCompilation ==
  /\ kIsDebugBuild \in BOOLEAN
  /\ receiver \in {r \in [Calls -> Values] : r["c1"] = "n1" /\ r["c2"] \in {"n1", "v2"}}

InitWorld ==
  /\ InitCompilation
  /\ \E ans \in {f \in [Calls -> UNION {ResolverAnswers(c) : c \in Calls}] :
                   \A c \in Calls : f[c] \in ResolverAnswers(c)} :
       /\ resolved_method = [c \in Calls |-> ans[c][1]]
       /\ actual_target = [c \in Calls |-> ans[c][2]]
       /\ profile = [c \in Calls |-> ans[c][3]]

\* The answers with the profile source as this file implements it.
InitWorldAsBuilt ==
  /\ InitCompilation
  /\ \E ans \in [Calls -> TargetAnswers] :
       /\ resolved_method = [c \in Calls |-> ans[c][1]]
       /\ actual_target = [c \in Calls |-> ans[c][2]]
  /\ profile = [c \in Calls |-> FindTypesFromProfile(c)]

\* An HInstruction: its identity, kind, inputs, result type, environment,
\* number of arguments (invokes) and payload (the class of an HLoadClass, the
\* guarded invoke of an HDevirtGuard).
Instruction(id, kind, inputs, type, env, nargs, data) ==
  [id |-> id, kind |-> kind, inputs |-> inputs, type |-> type, env |-> env,
   nargs |-> nargs, data |-> data]

GetType(c) == IF c = "c1" THEN "kPrimNot" ELSE "kPrimInt"
GetEnvironment(c) == IF c = "c1" THEN "env1" ELSE "env2"

\* The candidate invoke c as the graph builder left it.
Invoke(c, rcv) ==
  Instruction(c, IF IsInvokeInterface(c) THEN "InvokeInterface" ELSE "InvokeVirtual",
              IF c = "c1" THEN <<rcv>> ELSE <<rcv, "p2">>,
              GetType(c), GetEnvironment(c), GetNumberOfArguments(c), NULL)

NoFrame == [instr |-> NULL, cursor |-> NULL, type |-> NULL, new_invoke |-> NULL]

InitPass ==
  /\ block = <<Invoke("c1", receiver["c1"]), Invoke("c2", receiver["c2"])>>
  /\ pc = "idle"
  /\ frame = NoFrame
  /\ soa = FALSE
  /\ precise_prediction_ = EmptyMap
  /\ imprecise_predictions_ = EmptyMap
  /\ ret = Returned("none", NULL, NULL, NULL, FALSE)
  /\ fault = "none"

Init == InitWorld /\ InitPass

\* Mutant: the lookup of line 60 in imprecise_predictions_ is missing.
Cached_PreciseOnly(instr) == instr \in DOMAIN precise_prediction_

\* The lookups HasPrediction starts with (lines 58-62).
Cached(instr) == instr \in DOMAIN precise_prediction_ \/ instr \in DOMAIN imprecise_predictions_

\* The type HasPrediction records for a call with an actual target (lines 80-91).
PreciseType(invoke) ==
  IF IsMethodOrDeclaringClassFinal(actual_target[invoke])
  THEN GetDeclaringClass(actual_target[invoke])
  ELSE LET rcv == receiver[invoke]
       IN ReferenceTypeOf(IF IsNullCheck(rcv) THEN NullCheckInput(rcv) ELSE rcv)

\* Mutant: the null check of resolved_method (line 73) is missing.
HasPredictionValue_NoNullCheck(instr) ==
  IF instr \in DOMAIN precise_prediction_ THEN TRUE
  ELSE IF instr \in DOMAIN imprecise_predictions_ THEN TRUE
  ELSE IF actual_target[instr] # NULL THEN TRUE
  ELSE Len(profile[instr]) # 0

\* The boolean HasPrediction returns; `update` does not enter it.
HasPredictionValue(instr) ==
  IF instr \in DOMAIN precise_prediction_ THEN TRUE
  ELSE IF instr \in DOMAIN imprecise_predictions_ THEN TRUE
  ELSE IF resolved_method[instr] # NULL
       THEN IF actual_target[instr] # NULL THEN TRUE
            ELSE Len(profile[instr]) # 0
       ELSE FALSE

\* precise_prediction_ after HasPrediction(instr, update) (lines 58-98).
PreciseAfter(instr, update) ==
  IF ~Cached(instr) /\ resolved_method[instr] # NULL /\ actual_target[instr] # NULL /\ update
  THEN Put(precise_prediction_, instr, PreciseType(instr))
  ELSE precise_prediction_

\* Mutant: the profile is looked up and recorded although a target was found.
ImpreciseAfter_NoElse(instr, update) ==
  IF ~Cached(instr) /\ resolved_method[instr] # NULL /\ Len(profile[instr]) # 0 /\ update
  THEN Put(imprecise_predictions_, instr, profile[instr])
  ELSE imprecise_predictions_

\* Mutant: the list is recorded whatever `update` says.
ImpreciseAfter_IgnoresUpdate(instr, update) ==
  IF ~Cached(instr) /\ resolved_method[instr] # NULL /\ actual_target[instr] = NULL
     /\ Len(profile[instr]) # 0
  THEN Put(imprecise_predictions_, instr, profile[instr])
  ELSE imprecise_predictions_

\* Mutant: the list is recorded without the test of its size (line 103).
ImpreciseAfter_NoSizeCheck(instr, update) ==
  IF ~Cached(instr) /\ resolved_method[instr] # NULL /\ actual_target[instr] = NULL /\ update
  THEN Put(imprecise_predictions_, instr, profile[instr])
  ELSE imprecise_predictions_

\* imprecise_predictions_ after HasPrediction(instr, update) (lines 58-62, 99-118).
ImpreciseAfter(instr, update) ==
  IF ~Cached(instr) /\ resolved_method[instr] # NULL /\ actual_target[instr] = NULL
     /\ Len(profile[instr]) # 0 /\ update
  THEN Put(imprecise_predictions_, instr, profile[instr])
  ELSE imprecise_predictions_

\* ~HDevirtualization(): the checks of a debug build pass (lines 36-43).
Destructor ==
  kIsDebugBuild
    => \A it \in DOMAIN imprecise_predictions_ :
         /\ Len(imprecise_predictions_[it]) > 0
         /\ it \notin DOMAIN precise_prediction_

\* bool HasPrediction(HInstruction* instr, bool update)
HasPrediction(instr, update) ==
  /\ fault = "none" /\ pc = "idle"
  /\ IF /\ ~Cached(instr) /\ resolved_method[instr] # NULL /\ actual_target[instr] # NULL
        /\ update /\ PreciseType(instr) = NULL /\ kIsDebugBuild
     THEN \* DCHECK(type.GetReference() != nullptr)
          /\ fault' = "dcheck"
          /\ ret' = Returned("HasPrediction", instr, update, NULL, TRUE)
          /\ UNCHANGED <<precise_prediction_, imprecise_predictions_>>
     ELSE /\ precise_prediction_' = PreciseAfter(instr, update)
          /\ imprecise_predictions_' = ImpreciseAfter(instr, update)
          /\ ret' = Returned("HasPrediction", instr, update, HasPredictionValue(instr),
                             ~Cached(instr))
          /\ UNCHANGED fault
  /\ UNCHANGED <<world, graph>>

\* uint64_t GetMaxCost()
GetMaxCost == kCostOfLoadClass + kCostOfDevirtCheck

\* Mutant: the loop assigns the cost of a candidate instead of adding it.
CostOfTypes_Assigns(types) ==
  IF Len(types) = 0 THEN 0
  ELSE IF types[Len(types)] = kReferrerClass
       THEN kCostOfLoadReferrerClass + kCostOfDevirtCheck
       ELSE GetMaxCost

\* The loop of GetCost over the candidate types (lines 139-147).
RECURSIVE CostOfTypes(_)
CostOfTypes(types) ==
  IF Len(types) = 0 THEN 0
  ELSE CostOfTypes(SubSeq(types, 1, Len(types) - 1))
         + (IF types[Len(types)] = kReferrerClass
            THEN kCostOfLoadReferrerClass + kCostOfDevirtCheck
            ELSE GetMaxCost)

\* What GetCost returns for a call site with a cached prediction.
CostOf(instr) ==
  IF instr \in DOMAIN precise_prediction_ THEN 0
  ELSE CostOfTypes(imprecise_predictions_[instr])

\* What the uninitialized read of GetCost can produce.
GarbageCosts == {0, GetMaxCost}

\* uint64_t GetCost(HInstruction* instr)
GetCost(instr) ==
  /\ fault = "none" /\ pc = "idle"
  /\ IF Cached(instr)
     THEN /\ ret' = Returned("GetCost", instr, NULL, CostOf(instr), FALSE)
          /\ UNCHANGED fault
     ELSE IF kIsDebugBuild
     THEN \* DCHECK(HasPrediction(instr, false)) or DCHECK_NE(count, 0u) fails.
          /\ fault' = "dcheck"
          /\ ret' = Returned("GetCost", instr, NULL, NULL, TRUE)
     ELSE \* find(instr) is end(): its ->second is read.
          /\ fault' = "ub"
          /\ \E garbage \in GarbageCosts :
               ret' = Returned("GetCost", instr, NULL, garbage, FALSE)
  /\ UNCHANGED <<world, graph, precise_prediction_, imprecise_predictions_>>

\* imprecise_predictions_.count(instr): the number of map entries with this key.
CountOf(instr) == IF instr \in DOMAIN imprecise_predictions_ THEN 1 ELSE 0

\* Mutant: the rate of a single imprecise candidate is (1, 1).
MispredictRateOf_Certain(instr) ==
  IF instr \in DOMAIN precise_prediction_ THEN <<0, 10>>
  ELSE LET count == CountOf(instr)
       IN IF count = 1 THEN <<1, 1>>
          ELSE <<IF count = 0 THEN kSizeMax ELSE count - 1, count>>

\* What GetMispredictRate returns when no DCHECK stops it (lines 154-165).
MispredictRateOf(instr) ==
  IF instr \in DOMAIN precise_prediction_ THEN <<0, 10>>
  ELSE LET count == CountOf(instr)
       IN IF count = 1 THEN <<1, 10>>
          ELSE <<IF count = 0 THEN kSizeMax ELSE count - 1, count>>

\* std::pair<uint64_t, uint64_t> GetMispredictRate(HInstruction* instr)
GetMispredictRate(instr) ==
  /\ fault = "none" /\ pc = "idle"
  /\ IF ~Cached(instr) /\ kIsDebugBuild
     THEN /\ fault' = "dcheck"
          /\ ret' = Returned("GetMispredictRate", instr, NULL, NULL, TRUE)
     ELSE /\ ret' = Returned("GetMispredictRate", instr, NULL, MispredictRateOf(instr), FALSE)
          /\ UNCHANGED fault
  /\ UNCHANGED <<world, graph, precise_prediction_, imprecise_predictions_>>

\* uint64_t GetProfit(HInstruction* instr)
GetProfit(instr) ==
  /\ fault = "none" /\ pc = "idle"
  /\ IF kIsDebugBuild /\ ~HasPredictionValue(instr)
     THEN /\ fault' = "dcheck"
          /\ ret' = Returned("GetProfit", instr, NULL, NULL, TRUE)
     ELSE /\ ret' = Returned("GetProfit", instr, NULL,
                             kCostOfVirtualInvokes + GetNumberOfArguments(instr) + 1,
                             kIsDebugBuild /\ ~Cached(instr))
          /\ UNCHANGED fault
  /\ UNCHANGED <<world, graph, precise_prediction_, imprecise_predictions_>>

\* Mutant: the number of map entries is taken for the number of candidates.
RecoveryMethodOf_Count(instr) ==
  IF instr \in DOMAIN precise_prediction_ THEN "kRecoveryNotNeeded"
  ELSE LET prediction_count == CountOf(instr)
       IN IF prediction_count = 1 THEN "kRecoveryDeopt"
          ELSE "kRecoveryCodeVersioning"

\* What GetRecoveryMethod returns for a call site with a cached prediction.
RecoveryMethodOf(instr) ==
  IF instr \in DOMAIN precise_prediction_ THEN "kRecoveryNotNeeded"
  ELSE LET prediction_count == Len(imprecise_predictions_[instr])
       IN IF prediction_count = 1 THEN "kRecoveryDeopt"
          ELSE "kRecoveryCodeVersioning"

\* SpeculationRecoveryApproach GetRecoveryMethod(HInstruction* instr)
GetRecoveryMethod(instr) ==
  /\ fault = "none" /\ pc = "idle"
  /\ IF Cached(instr)
     THEN /\ ret' = Returned("GetRecoveryMethod", instr, NULL, RecoveryMethodOf(instr), FALSE)
          /\ UNCHANGED fault
     ELSE \* find(instr) is end(): the size of its ->second is read.
          /\ fault' = "ub"
          /\ \E garbage \in {"kRecoveryDeopt", "kRecoveryCodeVersioning"} :
               ret' = Returned("GetRecoveryMethod", instr, NULL, garbage, FALSE)
  /\ UNCHANGED <<world, graph, precise_prediction_, imprecise_predictions_>>

\* TypeHandle GetPrimaryType(HInvoke* invoke), for a call site with a cached prediction.
GetPrimaryType(invoke) ==
  IF invoke \in DOMAIN precise_prediction_ THEN precise_prediction_[invoke]
  ELSE imprecise_predictions_[invoke][1]

\* bool IsPredictionSame(HInstruction* instr, HInstruction* instr2)
IsPredictionSame(instr, instr2) ==
  /\ fault = "none" /\ pc = "idle"
  /\ IF kIsDebugBuild /\ ~(HasPredictionValue(instr) /\ HasPredictionValue(instr2))
     THEN /\ fault' = "dcheck"
          /\ ret' = Returned("IsPredictionSame", instr, instr2, NULL, TRUE)
     ELSE IF receiver[instr] = receiver[instr2]
     THEN /\ ret' = Returned("IsPredictionSame", instr, instr2, TRUE,
                             kIsDebugBuild /\ ~(Cached(instr) /\ Cached(instr2)))
          /\ UNCHANGED fault
     ELSE IF Cached(instr) /\ Cached(instr2)
     THEN /\ ret' = Returned("IsPredictionSame", instr, instr2,
                             GetPrimaryType(instr) = GetPrimaryType(instr2), FALSE)
          /\ UNCHANGED fault
     ELSE \* GetPrimaryType: DCHECK(it != end()), or it->second[0] of end().
          /\ fault' = IF kIsDebugBuild THEN "dcheck" ELSE "ub"
          /\ \E garbage \in BOOLEAN :
               ret' = Returned("IsPredictionSame", instr, instr2,
                               IF kIsDebugBuild THEN NULL ELSE garbage, kIsDebugBuild)
  /\ UNCHANGED <<world, graph, precise_prediction_, imprecise_predictions_>>

InBlock(id) == \E i \in 1..Len(block) : block[i].id = id
IndexOf(blk, id) == CHOOSE i \in 1..Len(blk) : blk[i].id = id
\* The identity of an instruction the pass creates: its role and the guard or
\* invoke it was created for.
NewId(role, instr) == role \o "." \o instr

\* HBasicBlock::InsertInstructionBefore(instruction, cursor)
InsertInstructionBefore(blk, instruction, cursor) ==
  LET i == IndexOf(blk, cursor)
  IN SubSeq(blk, 1, i - 1) \o <<instruction>> \o SubSeq(blk, i, Len(blk))

\* HBasicBlock::InsertInstructionAfter(instruction, cursor)
InsertInstructionAfter(blk, instruction, cursor) ==
  LET i == IndexOf(blk, cursor)
  IN SubSeq(blk, 1, i) \o <<instruction>> \o SubSeq(blk, i + 1, Len(blk))

\* HBasicBlock::ReplaceAndRemoveInstructionWith(initial, replacement)
ReplaceAndRemoveInstructionWith(blk, initial, replacement) ==
  [i \in 1..Len(blk) |-> IF blk[i].id = initial THEN replacement ELSE blk[i]]

\* The driver has inserted a guard for instr (one guard per candidate).
GuardInsertedFor(instr) ==
  \E i \in 1..Len(block) : block[i].kind = "DevirtGuard" /\ block[i].data = instr

\* Mutant: the class index is not compared with kDexNoIndex.
ClassIndexFound_Unchecked(type) == TRUE

\* FindClassIndexIn(type, caller_dex_file, dex_cache) != DexFile::kDexNoIndex
ClassIndexFound(type) == type \in DexClasses

\* InsertSpeculationGuard up to the check of the class index (lines 221-236).
ISG_Begin(instr_guarded, instr_cursor) ==
  /\ fault = "none" /\ pc = "idle"
  /\ InBlock(instr_guarded) /\ InBlock(instr_cursor)
  /\ ~GuardInsertedFor(instr_guarded)
  /\ IF ~Cached(instr_guarded)
     THEN \* GetPrimaryType: DCHECK(it != end()), or it->second[0] of end().
          /\ fault' = IF kIsDebugBuild THEN "dcheck" ELSE "ub"
          /\ ret' = Returned("InsertSpeculationGuard", instr_guarded, instr_cursor, NULL, FALSE)
          /\ UNCHANGED <<pc, frame, soa>>
     ELSE IF ~ClassIndexFound(GetPrimaryType(instr_guarded))
     THEN /\ ret' = Returned("InsertSpeculationGuard", instr_guarded, instr_cursor, NULL, TRUE)
          /\ UNCHANGED <<pc, frame, soa, fault>>
     ELSE /\ pc' = "isg_insert"
          /\ frame' = [NoFrame EXCEPT !.instr = instr_guarded, !.cursor = instr_cursor,
                                      !.type = GetPrimaryType(instr_guarded)]
          /\ soa' = TRUE
          /\ ret' = Returned("InsertSpeculationGuard", instr_guarded, instr_cursor, "running", TRUE)
          /\ UNCHANGED fault
  /\ UNCHANGED <<world, precise_prediction_, imprecise_predictions_, block>>

\* Mutant: the guard is anchored at the cursor instead of at class_getter.
GuardedBlock_GuardAfterCursor(blk, prediction, class_getter, guard, cursor) ==
  InsertInstructionAfter(
    InsertInstructionAfter(
      InsertInstructionBefore(blk, prediction, cursor),
      class_getter, prediction.id),
    guard, cursor)

\* Mutant: the three instructions go after the cursor.
GuardedBlock_AfterCursor(blk, prediction, class_getter, guard, cursor) ==
  InsertInstructionAfter(
    InsertInstructionAfter(
      InsertInstructionAfter(blk, prediction, cursor),
      class_getter, prediction.id),
    guard, class_getter.id)

\* The block after the three insertions of InsertSpeculationGuard (lines 271-273).
GuardedBlock(blk, prediction, class_getter, guard, cursor) ==
  InsertInstructionAfter(
    InsertInstructionAfter(
      InsertInstructionBefore(blk, prediction, cursor),
      class_getter, prediction.id),
    guard, class_getter.id)

\* InsertSpeculationGuard from the creation of the instructions to the return
\* (lines 238-275); `soa` goes out of scope at the return.
ISG_Insert ==
  /\ pc = "isg_insert"
  /\ LET invoke == block[IndexOf(block, frame.instr)]
         n == frame.instr
         prediction == Instruction(NewId("prediction", n), "LoadClass", <<"current_method">>,
                                   "kPrimNot", NULL, 0, frame.type)
         class_getter == Instruction(NewId("class_getter", n), "InstanceFieldGet",
                                     <<invoke.inputs[1]>>, "kPrimNot", NULL, 0, NULL)
         guard == Instruction(NewId("guard", n), "DevirtGuard",
                              <<prediction.id, class_getter.id>>, "kPrimVoid", NULL, 0,
                              frame.instr)
     IN /\ block' = GuardedBlock(block, prediction, class_getter, guard, frame.cursor)
        /\ ret' = Returned("InsertSpeculationGuard", frame.instr, frame.cursor, guard.id, TRUE)
  /\ pc' = "idle"
  /\ frame' = NoFrame
  /\ soa' = FALSE
  /\ UNCHANGED <<world, precise_prediction_, imprecise_predictions_, fault>>

\* Mutant: the method is not looked up in the predicted type (line 317 alone).
ActualMethod_NoLookup(resolved, override_found) == resolved

\* actual_method of HandleSpeculation (lines 317-325): the resolved method when
\* it is final, else what the predicted type answers for it.
ActualMethod(resolved, override_found) ==
  IF IsMethodOrDeclaringClassFinal(resolved) THEN resolved
  ELSE IF override_found THEN resolved ELSE NULL

\* HandleSpeculation up to the end of the scope of its ScopedObjectAccess (lines
\* 279-343). override_found: type->FindVirtualMethodFor{Interface,Virtual} is not
\* null; index_found: FindMethodIndexIn is not kDexNoIndex.
HS_Begin(instr, guard_inserted, override_found, index_found) ==
  /\ fault = "none" /\ pc = "idle"
  /\ InBlock(instr)
  /\ guard_inserted => GuardInsertedFor(instr)
  /\ LET Fail(why) ==
           /\ UNCHANGED <<pc, frame, fault>>
           /\ ret' = Returned("HandleSpeculation", instr, guard_inserted, FALSE, TRUE)
         Stop(how) ==
           /\ fault' = how
           /\ ret' = Returned("HandleSpeculation", instr, guard_inserted, NULL, TRUE)
           /\ UNCHANGED <<pc, frame>>
     IN IF ~Cached(instr)
        THEN Stop(IF kIsDebugBuild THEN "dcheck" ELSE "ub")
        ELSE IF (~guard_inserted \/ kIsDebugBuild)
                /\ ~ClassIndexFound(GetPrimaryType(instr))
        THEN IF kIsDebugBuild /\ guard_inserted
             THEN Stop("dcheck")
             ELSE Fail("class")
        ELSE IF resolved_method[instr] = NULL
        THEN IF kIsDebugBuild THEN Stop("dcheck") ELSE Fail("unresolved")
        ELSE IF ActualMethod(resolved_method[instr], override_found) = NULL
        THEN Fail("override")
        ELSE IF ~index_found
        THEN Fail("index")
        ELSE /\ pc' = "hs_replace"
             /\ frame' = [NoFrame EXCEPT !.instr = instr, !.new_invoke = NewId("new_invoke", instr)]
             /\ ret' = Returned("HandleSpeculation", instr, guard_inserted, "running", TRUE)
             /\ UNCHANGED fault
  /\ UNCHANGED <<world, precise_prediction_, imprecise_predictions_, block, soa>>

\* Mutant: the loop that copies the arguments (lines 363-366) is missing.
NewInvoke_NoArguments(id, invoke) ==
  Instruction(id, "InvokeStaticOrDirect",
              [i \in 1..Len(invoke.inputs) |-> NULL] \o <<"current_method">>,
              invoke.type, NULL, invoke.nargs, "kDirect")

\* The HInvokeStaticOrDirect built for `invoke` (lines 345-377), before it has
\* an environment.
NewInvoke(id, invoke) ==
  Instruction(id, "InvokeStaticOrDirect", invoke.inputs \o <<"current_method">>,
              invoke.type, NULL, invoke.nargs, "kDirect")

\* invoke->GetBlock()->ReplaceAndRemoveInstructionWith(invoke, new_invoke) (line 379)
HS_Replace ==
  /\ pc = "hs_replace"
  /\ LET invoke == block[IndexOf(block, frame.instr)]
     IN block' = ReplaceAndRemoveInstructionWith(block, frame.instr,
                                                 NewInvoke(frame.new_invoke, invoke))
  /\ pc' = "hs_copy_env"
  /\ UNCHANGED <<world, precise_prediction_, imprecise_predictions_, frame, soa, ret, fault>>

\* new_invoke->CopyEnvironmentFrom(invoke->GetEnvironment()); return true (lines 380-381)
HS_CopyEnvironment ==
  /\ pc = "hs_copy_env"
  /\ block' = [i \in 1..Len(block) |->
                 IF block[i].id = frame.new_invoke
                 THEN [block[i] EXCEPT !.env = GetEnvironment(frame.instr)]
                 ELSE block[i]]
  /\ ret' = [ret EXCEPT !.val = TRUE]
  /\ pc' = "idle"
  /\ frame' = NoFrame
  /\ UNCHANGED <<world, precise_prediction_, imprecise_predictions_, soa, fault>>

CallHasPrediction == \E instr \in Calls, update \in BOOLEAN : HasPrediction(instr, update)
CallGetCost == \E instr \in Calls : GetCost(instr)
CallGetMispredictRate == \E instr \in Calls : GetMispredictRate(instr)
CallGetProfit == \E instr \in Calls : GetProfit(instr)
CallGetRecoveryMethod == \E instr \in Calls : GetRecoveryMethod(instr)
CallIsPredictionSame == \E instr \in Calls, instr2 \in Calls : IsPredictionSame(instr, instr2)
\* The driver puts a guard at or before the invoke it protects.
CallInsertSpeculationGuard ==
  \E instr \in Calls, i \in 1..Len(block) :
    /\ InBlock(instr)
    /\ i <= IndexOf(block, instr)
    /\ ISG_Begin(instr, block[i].id)
CallHandleSpeculation ==
  \E instr \in Calls, guard_inserted \in BOOLEAN, override_found \in BOOLEAN,
     index_found \in BOOLEAN :
       HS_Begin(instr, guard_inserted, override_found, index_found)

Next ==
  \/ CallHasPrediction
  \/ CallGetCost
  \/ CallGetMispredictRate
  \/ CallGetProfit
  \/ CallGetRecoveryMethod
  \/ CallIsPredictionSame
  \/ CallInsertSpeculationGuard
  \/ ISG_Insert
  \/ CallHandleSpeculation
  \/ HS_Replace
  \/ HS_CopyEnvironment

\* The pass with the profile source a black box that answers with any list.
Spec == Init /\ [][Next]_vars

\* The pass with the profile source as this file implements it.
InitAsBuilt == InitWorldAsBuilt /\ InitPass
SpecAsBuilt == InitAsBuilt /\ [][Next]_vars

\* ------------------------------------------------------------ properties

\* What the collaborators answer for instr, whatever the pass has cached: there
\* is a prediction to be had.
Predictable(instr) ==
  /\ resolved_method[instr] # NULL
  /\ actual_target[instr] # NULL \/ profile[instr] # <<>>

\* C1: no call site is a key of both precise_prediction_ and
\* imprecise_predictions_, in any state of the pass.
C1_MutualExclusion ==
  DOMAIN precise_prediction_ \cap DOMAIN imprecise_predictions_ = {}

\* C1 witness: one call site has a precise and the other an imprecise prediction.
C1_Witness ==
  /\ DOMAIN precise_prediction_ # {}
  /\ DOMAIN imprecise_predictions_ # {}

\* C2: a call HasPrediction(c, false) leaves both maps as they were, and what it
\* returns is fixed by the answers of the resolver and the profile source for c
\* (so every such call returns the same boolean).
C2_NonUpdatingQuery ==
  [][(ret'.op = "HasPrediction" /\ ret'.arg = FALSE)
       => /\ precise_prediction_' = precise_prediction_
          /\ imprecise_predictions_' = imprecise_predictions_
          /\ ret'.val = Predictable(ret'.instr)]_vars

\* C2 witness: HasPrediction(c, false) returned true for a call site that has a
\* profile to record, and nothing is cached for it.
C2_Witness ==
  /\ ret.op = "HasPrediction" /\ ret.arg = FALSE /\ ret.val = TRUE
  /\ ~Cached(ret.instr)
  /\ actual_target[ret.instr] = NULL

\* C3: a cached prediction stays: every step of the pass keeps each entry of
\* either map in its map with its value and out of the other map, and
\* HasPrediction on a cached call site returns true without asking the resolver.
C3_CachedIsImmutable ==
  [][/\ \A c \in DOMAIN precise_prediction_ :
          /\ c \in DOMAIN precise_prediction_'
          /\ precise_prediction_'[c] = precise_prediction_[c]
          /\ c \notin DOMAIN imprecise_predictions_'
     /\ \A c \in DOMAIN imprecise_predictions_ :
          /\ c \in DOMAIN imprecise_predictions_'
          /\ imprecise_predictions_'[c] = imprecise_predictions_[c]
          /\ c \notin DOMAIN precise_prediction_'
     /\ (ret'.op = "HasPrediction"
           /\ (ret'.instr \in DOMAIN precise_prediction_
                 \/ ret'.instr \in DOMAIN imprecise_predictions_))
          => (ret'.val = TRUE /\ ~ret'.consulted)]_vars

\* C3 witness: HasPrediction hit the cache for a call site with a list of two
\* candidates, after the call was rewritten.
C3_Witness ==
  /\ ret.op = "HasPrediction" /\ ~ret.consulted
  /\ ret.instr \in DOMAIN imprecise_predictions_
  /\ Len(imprecise_predictions_[ret.instr]) = 2
  /\ \E i \in 1..Len(block) : block[i].kind = "InvokeStaticOrDirect"

\* C4 (as claimed): GetMispredictRate of a call site whose imprecise prediction
\* has N > 1 candidates is (N - 1, N).
C4_RateOfManyCandidates ==
  (/\ ret.op = "GetMispredictRate"
   /\ ret.instr \in DOMAIN imprecise_predictions_
   /\ Len(imprecise_predictions_[ret.instr]) > 1)
    => ret.val = <<Len(imprecise_predictions_[ret.instr]) - 1,
                   Len(imprecise_predictions_[ret.instr])>>

\* The strategy the answers of the collaborators fix for instr.
StrategyOfAnswers(instr) ==
  IF actual_target[instr] # NULL THEN "kRecoveryNotNeeded"
  ELSE IF Len(profile[instr]) = 1 THEN "kRecoveryDeopt"
  ELSE "kRecoveryCodeVersioning"

\* C5: for a call site with a cached prediction GetRecoveryMethod returns
\* NotNeeded exactly for a precise prediction, Deopt exactly for an imprecise
\* one with one candidate, CodeVersioning exactly for an imprecise one with more;
\* the strategy is the one the fixed answers for the call site give, so every
\* call for the same call site returns the same strategy.
C5_RecoveryOfPrediction ==
  (ret.op = "GetRecoveryMethod" /\ Cached(ret.instr))
    => LET c == ret.instr
           precise == c \in DOMAIN precise_prediction_
           n == IF c \in DOMAIN imprecise_predictions_
                THEN Len(imprecise_predictions_[c]) ELSE 0
       IN /\ (ret.val = "kRecoveryNotNeeded") <=> precise
          /\ (ret.val = "kRecoveryDeopt") <=> (~precise /\ n = 1)
          /\ (ret.val = "kRecoveryCodeVersioning") <=> (~precise /\ n > 1)
          /\ ret.val = StrategyOfAnswers(c)

\* C5 witness: GetRecoveryMethod chose code versioning for a list of two.
C5_Witness ==
  /\ ret.op = "GetRecoveryMethod" /\ ret.val = "kRecoveryCodeVersioning"
  /\ ret.instr \in DOMAIN imprecise_predictions_
  /\ Len(imprecise_predictions_[ret.instr]) = 2

\* The number of candidates of a list that are the class being compiled.
ReferrerCount(types) == Cardinality({i \in 1..Len(types) : types[i] = kReferrerClass})

\* C6: GetCost is 0 for a precise prediction; for an imprecise one it is the
\* sum of (load-referrer-class + check) over the candidates that are the class
\* being compiled and of GetMaxCost over the others, is not negative, and the
\* list with one more candidate costs no less.
C6_CostOfPrediction ==
  (ret.op = "GetCost" /\ Cached(ret.instr))
    => IF ret.instr \in DOMAIN precise_prediction_
       THEN ret.val = 0
       ELSE LET types == imprecise_predictions_[ret.instr]
            IN /\ ret.val = ReferrerCount(types) * (kCostOfLoadReferrerClass + kCostOfDevirtCheck)
                            + (Len(types) - ReferrerCount(types)) * GetMaxCost
               /\ ret.val >= 0
               /\ \A t \in Types : CostOfTypes(Append(types, t)) >= ret.val

\* C6 witness: GetCost of a list with the class being compiled and another class.
C6_Witness ==
  /\ ret.op = "GetCost"
  /\ ret.instr \in DOMAIN imprecise_predictions_
  /\ ReferrerCount(imprecise_predictions_[ret.instr]) = 1
  /\ Len(imprecise_predictions_[ret.instr]) = 2

\* C7: GetMispredictRate is (0, 10) for a precise prediction and (1, 10) for an
\* imprecise one with one candidate; for every cached prediction the denominator
\* is positive and the numerator is at least 0 and below the denominator.
C7_RateBounds ==
  (ret.op = "GetMispredictRate" /\ Cached(ret.instr))
    => /\ ret.instr \in DOMAIN precise_prediction_ => ret.val = <<0, 10>>
       /\ (ret.instr \in DOMAIN imprecise_predictions_
           /\ Len(imprecise_predictions_[ret.instr]) = 1) => ret.val = <<1, 10>>
       /\ ret.val[2] > 0
       /\ 0 <= ret.val[1] /\ ret.val[1] < ret.val[2]

\* C7 witness: GetMispredictRate of an imprecise prediction with one candidate.
C7_Witness ==
  /\ ret.op = "GetMispredictRate"
  /\ ret.instr \in DOMAIN imprecise_predictions_
  /\ Len(imprecise_predictions_[ret.instr]) = 1

\* C8: HasPrediction on a call site with nothing cached returns false when the
\* method does not resolve or when there is no target and the profile is empty,
\* true otherwise; with update it records a precise prediction exactly when a
\* target was found and the profile list, as it is, exactly when the profile
\* gave the prediction; it records nothing else.
C8_Resolution ==
  [][(ret'.op = "HasPrediction" /\ ~Cached(ret'.instr) /\ fault' = "none")
       => LET c == ret'.instr
              target == resolved_method[c] # NULL /\ actual_target[c] # NULL
              fromProfile == /\ resolved_method[c] # NULL /\ actual_target[c] = NULL
                             /\ profile[c] # <<>>
          IN /\ ret'.val = (target \/ fromProfile)
             /\ (c \in DOMAIN precise_prediction_') <=> (ret'.arg /\ target)
             /\ (c \in DOMAIN imprecise_predictions_') <=> (ret'.arg /\ fromProfile)
             /\ (ret'.arg /\ fromProfile) => imprecise_predictions_'[c] = profile[c]
             /\ ~(ret'.arg /\ target) => precise_prediction_' = precise_prediction_
             /\ ~(ret'.arg /\ fromProfile) => imprecise_predictions_' = imprecise_predictions_]_vars

\* C8 witness: HasPrediction(c, true) recorded the profile list <<B, A>>.
C8_Witness ==
  /\ ret.op = "HasPrediction" /\ ret.arg = TRUE /\ ret.consulted
  /\ ret.instr \in DOMAIN imprecise_predictions_
  /\ imprecise_predictions_[ret.instr] = <<"B", "A">>

\* The step of InsertSpeculationGuard that inserts: three instructions are added
\* to the block, together and right before the cursor, of kinds first, second
\* and DevirtGuard in this order; the load reads the receiver of the guarded
\* invoke and the class reference names its primary type; what was in the block
\* keeps its order; the guard is what is returned.
InsertsBeforeCursor(first, second) ==
  pc = "isg_insert"
    => \E i \in 1..Len(block) :
         /\ block[i].id = frame.cursor
         /\ Len(block') = Len(block) + 3
         /\ \A j \in 1..(i - 1) : block'[j] = block[j]
         /\ \A j \in i..Len(block) : block'[j + 3] = block[j]
         /\ \A j \in i..(i + 2) : ~InBlock(block'[j].id)
         /\ block'[i].kind = first /\ block'[i + 1].kind = second
         /\ block'[i + 2].kind = "DevirtGuard"
         /\ \A j \in i..(i + 1) :
              /\ block'[j].kind = "InstanceFieldGet"
                   => block'[j].inputs = <<receiver[frame.instr]>>
              /\ block'[j].kind = "LoadClass"
                   => block'[j].data = GetPrimaryType(frame.instr)
         /\ ret'.op = "InsertSpeculationGuard"
         /\ ret'.val = block'[i + 2].id

\* C9 (as claimed): the three instructions are, in this order, the load of the
\* receiver's runtime type, the reference to the predicted type, the guard.
C9_LoadThenReference == [][InsertsBeforeCursor("InstanceFieldGet", "LoadClass")]_vars

\* C9 (amended): a successful InsertSpeculationGuard adds exactly three
\* instructions to the cursor's block, together and right before the cursor, in
\* the order: reference to the predicted type, load of the receiver's runtime
\* type, guard; every other instruction keeps its place relative to the others,
\* and the guard is returned.
C9_ReferenceThenLoad == [][InsertsBeforeCursor("LoadClass", "InstanceFieldGet")]_vars

\* C9 witness: a guard for c2 was inserted before c2, after c1.
C9_Witness ==
  /\ ret.op = "InsertSpeculationGuard" /\ ret.instr = "c2" /\ ret.arg = "c2"
  /\ ret.val = "guard.c2"
  /\ \E i \in 1..Len(block) : block[i].id = "guard.c2"

\* C10: InsertSpeculationGuard for a call site whose primary predicted type has
\* no index in the caller's dex file returns null, inserts nothing, leaves the
\* invoke in the block as it was and leaves both maps as they were.
C10_GuardFailure ==
  [][(/\ ret'.op = "InsertSpeculationGuard" /\ pc = "idle"
      /\ Cached(ret'.instr)
      /\ GetPrimaryType(ret'.instr) \notin DexClasses)
       => /\ ret'.val = NULL
          /\ fault' = "none" /\ pc' = "idle"
          /\ block' = block
          /\ \E i \in 1..Len(block') :
               /\ block'[i].id = ret'.instr
               /\ block'[i].kind \in {"InvokeVirtual", "InvokeInterface"}
          /\ precise_prediction_' = precise_prediction_
          /\ imprecise_predictions_' = imprecise_predictions_]_vars

\* C10 witness: InsertSpeculationGuard returned null for a call site whose
\* cached list starts with B.
C10_Witness ==
  /\ ret.op = "InsertSpeculationGuard" /\ ret.val = NULL /\ fault = "none"
  /\ ret.instr \in DOMAIN imprecise_predictions_
  /\ imprecise_predictions_[ret.instr][1] = "B"

\* C11: a HandleSpeculation that returns false leaves the block as it was when
\* it was called: the invoke is still there as the graph builder left it and
\* nothing was added; and HandleSpeculation goes on to the rewrite only when
\* none of the reasons to fail holds, that is, it returns false (when no check
\* stops it) whenever the predicted type has no index in the caller's dex file,
\* the method does not resolve, the predicted type has no implementation of it,
\* or that implementation has no index in the caller's dex file.
C11_FailedRewrite ==
  [][/\ (/\ pc = "idle" /\ ret'.op = "HandleSpeculation"
         /\ fault' = "none" /\ pc' # "idle")
          => \A override_found \in BOOLEAN, index_found \in BOOLEAN :
               HS_Begin(ret'.instr, ret'.arg, override_found, index_found)
                 => /\ Cached(ret'.instr)
                    /\ GetPrimaryType(ret'.instr) \in DexClasses
                    /\ resolved_method[ret'.instr] # NULL
                    /\ IsMethodOrDeclaringClassFinal(resolved_method[ret'.instr])
                         \/ override_found
                    /\ index_found
     /\ (/\ pc = "idle" /\ ret'.op = "HandleSpeculation"
         /\ fault' = "none" /\ pc' = "idle" /\ ret'.val = FALSE)
          => /\ block' = block
             /\ \E i \in 1..Len(block') :
                  /\ block'[i].id = ret'.instr
                  /\ block'[i].kind \in {"InvokeVirtual", "InvokeInterface"}]_vars

\* C11 witness: HandleSpeculation without a guard returned false for a call
\* site whose precise type is from another dex file.
C11_Witness ==
  /\ ret.op = "HandleSpeculation" /\ fault = "none" /\ pc = "idle"
  /\ ret.val = FALSE /\ ret.arg = FALSE
  /\ ret.instr \in DOMAIN precise_prediction_
  /\ precise_prediction_[ret.instr] \notin DexClasses

\* C12: the rewrite of a successful HandleSpeculation puts a direct call where
\* the invoke was and takes the invoke out of the block, every other
\* instruction staying where it was; when HandleSpeculation returns true the
\* direct call has the number of arguments, the arguments in their positions,
\* the result type and the environment of the invoke.
C12_Rewrite ==
  [][/\ pc = "hs_replace"
          => \E i \in 1..Len(block) :
               /\ block[i].id = frame.instr
               /\ Len(block') = Len(block)
               /\ \A j \in 1..Len(block) : j # i => block'[j] = block[j]
               /\ block'[i].kind = "InvokeStaticOrDirect"
               /\ block'[i].id = frame.new_invoke
               /\ \A j \in 1..Len(block') : block'[j].id # frame.instr
     /\ pc = "hs_copy_env"
          => /\ pc' = "idle" /\ fault' = "none"
             /\ ret'.op = "HandleSpeculation" /\ ret'.val = TRUE
             /\ LET orig == Invoke(ret'.instr, receiver[ret'.instr])
                IN /\ Len(block') = Len(block)
                   /\ \A j \in 1..Len(block') : block'[j].id # orig.id
                   /\ \E i \in 1..Len(block') :
                        /\ block'[i].id = frame.new_invoke
                        /\ block[i].id = frame.new_invoke
                        /\ \A j \in 1..Len(block) : j # i => block'[j] = block[j]
                        /\ block'[i].kind = "InvokeStaticOrDirect"
                        /\ block'[i].nargs = orig.nargs
                        /\ SubSeq(block'[i].inputs, 1, orig.nargs) = orig.inputs
                        /\ block'[i].type = orig.type
                        /\ block'[i].env = orig.env
                        /\ orig.env # NULL]_vars

\* C12 witness: HandleSpeculation returned true for the guarded two-argument
\* interface call c2, and the direct call is in the block.
C12_Witness ==
  /\ ret.op = "HandleSpeculation" /\ fault = "none" /\ pc = "idle"
  /\ ret.val = TRUE /\ ret.arg = TRUE /\ ret.instr = "c2"
  /\ \E i \in 1..Len(block) :
       block[i].id = "new_invoke.c2" /\ block[i].env = GetEnvironment("c2")

\* C13 (as claimed): a HandleSpeculation called with guard_inserted, after
\* InsertSpeculationGuard returned a guard for the call site, returns true.
C13_GuardImpliesRewrite ==
  (/\ ret.op = "HandleSpeculation" /\ fault = "none" /\ pc = "idle"
   /\ ret.arg = TRUE)
    => ret.val = TRUE

\* C14 (as claimed): no step changes the block while a ScopedObjectAccess is
\* alive.
C14_NoLockAcrossMutation == [][block' # block => ~soa]_vars

\* C15 (as claimed): in no state is a direct call in the block without the
\* environment of the invoke it replaces.
C15_NoCallWithoutEnvironment ==
  \A i \in 1..Len(block) :
    block[i].kind = "InvokeStaticOrDirect" => block[i].env # NULL

\* C16 (as claimed): a GetCost or GetMispredictRate that follows a
\* HasPrediction(c, false) which returned true from the resolver (nothing has
\* been recorded for c yet) finds a cached prediction for c and passes its
\* checks.
C16_QueriesFindCache ==
  [][(/\ ret.op = "HasPrediction" /\ fault = "none"
      /\ ret.arg = FALSE /\ ret.val = TRUE /\ ret.consulted
      /\ ret'.op \in {"GetCost", "GetMispredictRate"}
      /\ ret'.instr = ret.instr)
       => (Cached(ret.instr) /\ fault' = "none")]_vars

\* C17 (as claimed): when IsPredictionSame returns true for two call sites with
\* cached predictions, their primary types are the same.
C17_SamePredictionSameType ==
  (/\ ret.op = "IsPredictionSame" /\ fault = "none"
   /\ Cached(ret.instr) /\ Cached(ret.arg)
   /\ ret.val = TRUE)
    => GetPrimaryType(ret.instr) = GetPrimaryType(ret.arg)

\* C18: in every state every list of imprecise_predictions_ has at least one
\* candidate, so its element 0, the primary type, exists; the checks of the
\* destructor pass whenever it runs.
C18_NonEmptyLists ==
  /\ \A c \in DOMAIN imprecise_predictions_ :
       /\ Len(imprecise_predictions_[c]) >= 1
       /\ imprecise_predictions_[c][1] \in Types
  /\ Destructor

\* C18 witness: HasPrediction(c, true) found neither a target nor a profile for
\* c and returned false, while the other call site has a list recorded.
C18_Witness ==
  /\ ret.op = "HasPrediction" /\ fault = "none" /\ ret.arg = TRUE /\ ret.val = FALSE
  /\ resolved_method[ret.instr] # NULL /\ actual_target[ret.instr] = NULL
  /\ profile[ret.instr] = <<>>
  /\ DOMAIN imprecise_predictions_ # {}

\* C19: after HandleSpeculation, called with guard_inserted, has returned
\* false, the class reference, the load and the guard that
\* InsertSpeculationGuard put in for the call site are still in the block, in
\* this order and in front of the invoke, which is still there: the block is
\* not as it was before the guard was inserted.
C19_GuardsStay ==
  (/\ ret.op = "HandleSpeculation" /\ fault = "none" /\ pc = "idle"
   /\ ret.arg = TRUE /\ ret.val = FALSE)
    => LET c == ret.instr
       IN /\ \A id \in {NewId("prediction", c), NewId("class_getter", c),
                        NewId("guard", c), c} : InBlock(id)
          /\ LET i == IndexOf(block, NewId("prediction", c))
                 j == IndexOf(block, NewId("class_getter", c))
                 k == IndexOf(block, NewId("guard", c))
                 l == IndexOf(block, c)
             IN /\ i < j /\ j < k /\ k < l
                /\ block[i].kind = "LoadClass"
                /\ block[j].kind = "InstanceFieldGet"
                /\ block[k].kind = "DevirtGuard"
                /\ block[k].data = c
                /\ block[l] = Invoke(c, receiver[c])
          /\ Len(block) > Cardinality(Calls)

\* C19 witness: HandleSpeculation failed for c1 after a guard for c1 was
\* inserted in front of it.
C19_Witness ==
  /\ ret.op = "HandleSpeculation" /\ fault = "none" /\ pc = "idle"
  /\ ret.arg = TRUE /\ ret.val = FALSE /\ ret.instr = "c1"
  /\ \E i \in 1..Len(block) : block[i].id = "guard.c1"

\* C20: with FindTypesFromProfile as implemented, imprecise_predictions_ is
\* empty in every state and every cached prediction is precise; HasPrediction
\* returns true only for a call site with a resolved method and an actual
\* target; for a cached call site GetCost returns 0, GetMispredictRate (0, 10)
\* and GetRecoveryMethod kRecoveryNotNeeded.
C20_AsBuilt ==
  /\ DOMAIN imprecise_predictions_ = {}
  /\ \A c \in Calls : Cached(c) => c \in DOMAIN precise_prediction_
  /\ (ret.op = "HasPrediction" /\ fault = "none" /\ ret.val = TRUE)
       => (resolved_method[ret.instr] # NULL /\ actual_target[ret.instr] # NULL)
  /\ (ret.op = "GetCost" /\ Cached(ret.instr)) => ret.val = 0
  /\ (ret.op = "GetMispredictRate" /\ Cached(ret.instr)) => ret.val = <<0, 10>>
  /\ (ret.op = "GetRecoveryMethod" /\ Cached(ret.instr)) => ret.val = "kRecoveryNotNeeded"

\* C20 witness: GetRecoveryMethod answered for a cached call site, and the other
\* call site resolves but has no target, so only a profile could predict it.
C20_Witness ==
  /\ ret.op = "GetRecoveryMethod" /\ fault = "none" /\ Cached(ret.instr)
  /\ profile = [c \in Calls |-> <<>>]
  /\ \E c \in Calls :
       resolved_method[c] # NULL /\ actual_target[c] = NULL /\ ~Cached(c)
====
